---- MODULE Spec2Model ----
(***************************************************************************)
(* Keystone "Content" field: the three document walks                      *)
(*   serialiseSlateValue     (Slate value  -> document + mutation batches) *)
(*   processSerialised       (mutation paths -> join ids)                  *)
(*   deserialiseToSlateValue (join ids + fetched records -> Slate value)   *)
(* and the duplicate-type check of the Content constructor.                *)
(*                                                                         *)
(* JavaScript objects are records whose DOMAIN is the set of own keys, so  *)
(* "key absent" is "key not in DOMAIN".  Arrays and Immutable Lists are    *)
(* sequences.  An optional value is <<>> (undefined) or <<v>>.             *)
(* A mutation path string `${path}.${action}[${i}]` is the key sequence    *)
(* <<path, action, i>> that lodash.get parses it into; block paths and     *)
(* action names are GraphQL field names and hold no '.' or '['.            *)
(***************************************************************************)
EXTENDS Integers, Sequences, FiniteSets, TLC

\* ------------------------------------------------------------------ bounds
MaxKids == 2       \* children of the document node
MaxItems == 2      \* mutations in one action's array
MaxBlocks == 2     \* blocks configured on one Content field

\* ------------------------------------------------------------- JS helpers
Has(obj, key) == key \in DOMAIN obj

\* {}
EmptyObj == [k \in {} |-> TRUE]

None == <<>>
Some(v) == <<v>>

\* const v = value; return Body(v): the value is computed once
Let(value, Body(_)) == CHOOSE r \in {Body(v) : v \in {value}} : TRUE

\* { ...obj, [key]: val }
With(obj, key, val) ==
    [k \in DOMAIN obj \cup {key} |-> IF k = key THEN val ELSE obj[k]]

\* { ...under, ...over }
Spread(under, over) ==
    [k \in DOMAIN under \cup DOMAIN over |->
        IF k \in DOMAIN over THEN over[k] ELSE under[k]]

\* ------------------------------------------------ Slate nodes, JSON nodes
\* A Slate (immutable) node: object, key, and for blocks type, data, nodes.
\* Node#toJSON() drops the key (preserveKeys is off) and converts children.
RECURSIVE toJSON(_)
toJSON(node) ==
    [k \in DOMAIN node \ {"key"} |->
        IF k = "nodes"
        THEN [i \in 1..Len(node.nodes) |-> toJSON(node.nodes[i])]
        ELSE node[k]]

\* node.set('nodes', Node.createList()).toJSON(), or node.toJSON() for a leaf
shallowNodeToJson(node) ==
    IF Has(node, "nodes")
    THEN toJSON([node EXCEPT !.nodes = <<>>])
    ELSE toJSON(node)

\* ---------------------------------------------------------- block handlers
\* The client-side handler maps handed to serialiseSlateValue and
\* deserialiseToSlateValue: blocks[type] is the handler, `path` is optional.
\* In the second map two handlers share one batch key.
BlockMaps ==
    << [image |-> [type |-> "image", path |-> "images"],
        user  |-> [type |-> "user",  path |-> "users"],
        embed |-> [type |-> "embed"]],
       [image |-> [type |-> "image", path |-> "images"],
        user  |-> [type |-> "user",  path |-> "images"],
        embed |-> [type |-> "embed"]] >>

\* What a handler's serialize() answers, selected by the node's data.beh:
\* node: none | bare (no data key) | data (a data key of its own) |
\*       stale (data._mutationPaths already filled in)
\* muts: absent, or the entries <<action, is-array, count>> in insertion order
Behaviour ==
    [pass   |-> [node |-> "bare",  muts |-> None],
     drop   |-> [node |-> "none",  muts |-> None],
     orphan |-> [node |-> "none",  muts |-> Some(<< <<"create", FALSE, 1>> >>)],
     one    |-> [node |-> "bare",  muts |-> Some(<< <<"create", FALSE, 1>> >>)],
     many   |-> [node |-> "data",  muts |-> Some(<< <<"create", TRUE, MaxItems>> >>)],
     zero   |-> [node |-> "bare",  muts |-> Some(<< <<"create", TRUE, 0>> >>)],
     stale  |-> [node |-> "stale", muts |-> Some(<< <<"create", FALSE, 1>> >>)],
     both   |-> [node |-> "bare",  muts |-> Some(<< <<"connect", FALSE, 1>>,
                                                    <<"create", TRUE, MaxItems>> >>)],
     nomut  |-> [node |-> "data",  muts |-> Some(<<>>)]]

StalePath == <<"images", "create", 0>>

\* One mutation argument object; it names the node and slot it came from.
Mutation(node, action, n) == [from |-> node.key, action |-> action, n |-> n]

\* mutations[action]: a single object, or an array of them
MutationData(node, entry) ==
    IF entry[2]
    THEN [isArray |-> TRUE,
          items |-> [n \in 1..entry[3] |-> Mutation(node, entry[1], n)]]
    ELSE [isArray |-> FALSE, value |-> Mutation(node, entry[1], 1)]

\* block.serialize({ value, node }) -> { node, mutations }
serialize(block, value, node) ==
    LET b == Behaviour[node.data.beh]
        json == toJSON(node)
        base == [object |-> "block", type |-> node.type, nodes |-> json.nodes]
        sn == CASE b.node = "bare"  -> base
                [] b.node = "data"  -> With(base, "data", [align |-> "center"])
                [] b.node = "stale" ->
                       With(base, "data", [_mutationPaths |-> <<StalePath>>])
                [] OTHER -> base
        muts == IF b.muts = None THEN <<>>
                ELSE [i \in 1..Len(b.muts[1]) |->
                        [action |-> b.muts[1][i][1],
                         data |-> MutationData(node, b.muts[1][i])]]
    IN  Spread(IF b.node = "none" THEN EmptyObj ELSE [node |-> sn],
               IF b.muts = None THEN EmptyObj ELSE [mutations |-> muts])

\* ------------------------------------------------------ serialiseSlateValue
\* Mutant: the length after the push taken for the index of the pushed entry
MutationPathLength(path, action, insertedBefore) == <<path, action, insertedBefore>>

\* `${block.path}.${action}[${insertedBefore - 1}]`
MutationPath(path, action, insertedBefore) == <<path, action, insertedBefore - 1>>

\* Array.isArray(mutationData) ? mutationData : [mutationData]
AsArray(mutationData) ==
    IF mutationData.isArray THEN mutationData.items ELSE <<mutationData.value>>

\* allMutations[block.path] = allMutations[block.path] || { disconnectAll: true }
EnsureGroup(allMutations, path) ==
    IF Has(allMutations, path) THEN allMutations
    ELSE With(allMutations, path, [disconnectAll |-> TRUE])

\* Mutant: the action's array started afresh for every node (`= []`)
EnsureActionReset(allMutations, path, action) ==
    [allMutations EXCEPT ![path] = With(@, action, <<>>)]

\* allMutations[block.path][action] = allMutations[block.path][action] || []
EnsureAction(allMutations, path, action) ==
    IF Has(allMutations[path], action) THEN allMutations
    ELSE [allMutations EXCEPT ![path] = With(@, action, <<>>)]

RECURSIVE PushMutations(_, _, _, _, _)
\* mutationData.forEach(mutation => { push; push the path })
PushMutations(items, path, action, allMutations, paths) ==
    IF items = <<>> THEN [allMutations |-> allMutations, paths |-> paths]
    ELSE LET pushed == Append(allMutations[path][action], Head(items))
             insertedBefore == Len(pushed)
         IN  PushMutations(Tail(items), path, action,
                           [allMutations EXCEPT ![path][action] = pushed],
                           Append(paths, MutationPath(path, action, insertedBefore)))

RECURSIVE GatherMutations(_, _, _, _)
\* Object.entries(mutations).forEach(([action, mutationData]) => ...)
GatherMutations(entries, path, allMutations, paths) ==
    IF entries = <<>> THEN [allMutations |-> allMutations, paths |-> paths]
    ELSE LET e == Head(entries)
             r == PushMutations(AsArray(e.data), path, e.action,
                                EnsureAction(allMutations, path, e.action), paths)
         IN  GatherMutations(Tail(entries), path, r.allMutations, r.paths)

\* serializedNode.data = serializedNode.data || {};
\* serializedNode.data._mutationPaths = serializedNode.data._mutationPaths || [];
EnsureMutationPaths(serializedNode) ==
    LET data == IF Has(serializedNode, "data") THEN serializedNode.data ELSE EmptyObj
    IN  With(serializedNode, "data",
             IF Has(data, "_mutationPaths") THEN data
             ELSE With(data, "_mutationPaths", <<>>))

\* Mutant: mutations without a node to carry them count as no mutations
HasMutationsAndNode(r) == Has(r, "mutations") /\ Len(r.mutations) > 0 /\ Has(r, "node")

\* mutations && Object.keys(mutations).length
HasMutations(r) == Has(r, "mutations") /\ Len(r.mutations) > 0

Throw(st, err) == [kind |-> "throw", st |-> [st EXCEPT !.err = err]]

\* visitBlock of serialiseSlateValue; st.allMutations is the closure's map
serialiseVisitBlock(env, node, st) ==
    IF ~Has(env.blocks, node.type) THEN [kind |-> "undefined", st |-> st]
    ELSE
    LET block == env.blocks[node.type]
    IN  Let(serialize(block, env.value, node), LAMBDA r :
        IF HasMutations(r)
        THEN IF ~Has(r, "node") THEN Throw(st, "NoSerializedNode")
             ELSE IF ~Has(block, "path") THEN Throw(st, "NoMutationPath")
             ELSE Let(EnsureMutationPaths(r.node), LAMBDA sn :
                  Let(GatherMutations(r.mutations, block.path,
                                      EnsureGroup(st.allMutations, block.path),
                                      sn.data._mutationPaths), LAMBDA g :
                      [kind |-> "node",
                       node |-> [sn EXCEPT !.data._mutationPaths = g.paths],
                       st |-> [st EXCEPT !.allMutations = g.allMutations]]))
        ELSE IF Has(r, "node") THEN [kind |-> "node", node |-> r.node, st |-> st]
             ELSE [kind |-> "null", st |-> st])

\* --------------------------------------------------------- processSerialised
\* blocks.reduce((mutations, block) =>
\*     ({ ...mutations, ...block.getMutationOperationResults(graphQlArgs) }), {})
RECURSIVE resolvedMutationsOf(_, _)
resolvedMutationsOf(blocks, mutations) ==
    IF blocks = <<>> THEN mutations
    ELSE resolvedMutationsOf(Tail(blocks), Spread(mutations, Head(blocks).results))

\* lodash.get(object, 'path.action[i]'); a JS index i is element i + 1 here
getByPath(object, mutationPath) ==
    IF /\ Has(object, mutationPath[1])
       /\ Has(object[mutationPath[1]], mutationPath[2])
       /\ (mutationPath[3] + 1) \in DOMAIN object[mutationPath[1]][mutationPath[2]]
    THEN Some(object[mutationPath[1]][mutationPath[2]][mutationPath[3] + 1])
    ELSE None

\* Mutant: only a missing result counts, a falsy one passes
FalsyUndefinedOnly(found) == found = None

\* !joinId : undefined, or a falsy result (the empty string)
Falsy(found) == found = None \/ found[1] = ""

RECURSIVE joinIdsOf(_, _, _)
\* node.data._mutationPaths.map(mutationPath => ...), throwing on the first
\* path that does not resolve
joinIdsOf(mutationPaths, resolvedMutations, acc) ==
    IF mutationPaths = <<>> THEN [ok |-> TRUE, joinIds |-> acc]
    ELSE LET joinId == getByPath(resolvedMutations, Head(mutationPaths))
         IN  IF Falsy(joinId) THEN [ok |-> FALSE, joinIds |-> acc]
             ELSE joinIdsOf(Tail(mutationPaths), resolvedMutations,
                            Append(acc, joinId[1]))

\* blocks.find(({ type }) => type === node.type)
findBlock(blocks, type) ==
    LET hits == {i \in 1..Len(blocks) : blocks[i].type = type}
    IN  IF hits = {} THEN None
        ELSE Some(blocks[CHOOSE i \in hits : \A j \in hits : i <= j])

\* Mutant: _joinIds added to the node's data instead of replacing it
ResolvedNodeKeepingData(node, _joinIds) ==
    With(node, "data", With(node.data, "_joinIds", _joinIds))

\* { ...node, data: { _joinIds } }
ResolvedNode(node, _joinIds) == With(node, "data", [_joinIds |-> _joinIds])

\* visitBlock of processSerialised
processVisitBlock(env, node, st) ==
    IF ~Has(node, "data") \/ ~Has(node.data, "_mutationPaths")
    THEN [kind |-> "node", node |-> node, st |-> st]
    ELSE IF findBlock(env.blocks, node.type) = None
         THEN Throw(st, "NoBlockType")
         ELSE Let(joinIdsOf(node.data._mutationPaths, env.resolvedMutations, <<>>),
                  LAMBDA r :
                  IF ~r.ok THEN Throw(st, "UnknownMutation")
                  ELSE [kind |-> "node",
                        node |-> ResolvedNode(node, r.joinIds),
                        st |-> st])

\* --------------------------------------------------- deserialiseToSlateValue
\* Value.fromJSON({ document }): every node gets a key; a block's data
\* defaults to an empty Map and its nodes to an empty List.
RECURSIVE fromJSON(_, _)
fromJSON(json, key) ==
    IF json.object = "text" THEN With(json, "key", key)
    ELSE LET kids == IF Has(json, "nodes") THEN json.nodes ELSE <<>>
         IN  [k \in DOMAIN json \cup {"key", "data", "nodes"} |->
                CASE k = "key" -> key
                  [] k = "data" -> IF Has(json, "data") THEN json.data ELSE EmptyObj
                  [] k = "nodes" ->
                         [i \in 1..Len(kids) |-> fromJSON(kids[i], Append(key, i))]
                  [] OTHER -> json[k]]

\* Mutant: the last record of that id is taken
findLast(data, joinId) ==
    LET hits == {i \in 1..Len(data) : data[i].id = joinId}
    IN  IF hits = {} THEN None
        ELSE Some(data[CHOOSE i \in hits : \A j \in hits : i >= j])

\* data.find(({ id }) => joinId === id): the first match, or undefined
find(data, joinId) ==
    LET hits == {i \in 1..Len(data) : data[i].id = joinId}
    IN  IF hits = {} THEN None
        ELSE Some(data[CHOOSE i \in hits : \A j \in hits : i <= j])

\* block.deserialize({ node, joins }), selected by the node's data.beh:
\* a Slate node built from the joins, null, or something that is no Node
deserialize(block, node, joins) ==
    LET beh == IF Has(node.data, "beh") THEN node.data.beh ELSE "node"
    IN  CASE beh = "null" -> [kind |-> "null"]
          [] beh = "plain" -> [kind |-> "plain"]
          [] OTHER -> [kind |-> "node",
                       node |-> [node EXCEPT !.data = [joins |-> joins],
                                             !.nodes = <<>>]]

\* (nodeData && nodeData.size && nodeData.get('_joinIds')) || []
joinIdsOfNode(node) ==
    IF Has(node, "data") /\ DOMAIN node.data # {} /\ Has(node.data, "_joinIds")
    THEN node.data._joinIds ELSE <<>>

\* visitBlock of deserialiseToSlateValue; st.calls logs the deserialize calls
deserialiseVisitBlock(env, node, st) ==
    IF ~Has(env.blocks, node.type) THEN [kind |-> "undefined", st |-> st]
    ELSE
    LET block == env.blocks[node.type]
        \* serializations[block.path]
        data == IF Has(block, "path") /\ Has(env.serializations, block.path)
                THEN Some(env.serializations[block.path]) ELSE None
        joinIds == joinIdsOfNode(node)
    IN  IF joinIds # <<>> /\ data = None
        THEN Throw(st, "TypeError")   \* data.find on undefined
        ELSE LET joins == [i \in 1..Len(joinIds) |-> find(data[1], joinIds[i])]
                 newNode == deserialize(block, node, joins)
                 st1 == [st EXCEPT !.calls =
                            Append(@, [key |-> node.key, joins |-> joins])]
             IN  CASE newNode.kind = "null" -> [kind |-> "undefined", st |-> st1]
                   [] newNode.kind = "plain" -> Throw(st1, "NotANode")
                   [] OTHER -> [kind |-> "node", node |-> newNode.node, st |-> st1]

\* --------------------------------------------------------------- the walker
visitBlock(mode, env, node, st) ==
    CASE mode = "serialise" -> serialiseVisitBlock(env, node, st)
      [] mode = "process" -> processVisitBlock(env, node, st)
      [] OTHER -> deserialiseVisitBlock(env, node, st)

NoneVisited == [out |-> <<>>, inp |-> <<>>]

RECURSIVE visitNode(_, _, _, _)
RECURSIVE visitNodes(_, _, _, _, _)
\* nodes.map(childNode => visitNode(childNode)), child by child; `inp` is what
\* the visited input objects hold afterwards
visitNodes(mode, env, nodes, st, acc) ==
    IF Len(acc.out) = Len(nodes) \/ st.err # "none"
    THEN [out |-> acc.out, st |-> st,
          inp |-> acc.inp \o SubSeq(nodes, Len(acc.inp) + 1, Len(nodes))]
    ELSE Let(visitNode(mode, env, nodes[Len(acc.out) + 1], st), LAMBDA v :
             IF v.kind = "throw"
             THEN visitNodes(mode, env, nodes, v.st,
                             [out |-> acc.out, inp |-> Append(acc.inp, v.inp)])
             ELSE visitNodes(mode, env, nodes, v.st,
                             [out |-> Append(acc.out, v.node),
                              inp |-> Append(acc.inp, v.inp)]))

\* Mutant: the node turned into JSON whole, its children never visited
serialiseDefaultVisitorDeep(env, node, st) ==
    [kind |-> "node", node |-> toJSON(node), st |-> st, inp |-> node]

\* defaultVisitor of serialiseSlateValue
serialiseDefaultVisitor(env, node, st) ==
    LET visitedNode == shallowNodeToJson(node)
    IN  IF Has(node, "nodes")
        THEN Let(visitNodes("serialise", env, node.nodes, st, NoneVisited), LAMBDA r :
                 IF r.st.err # "none"
                 THEN [kind |-> "throw", st |-> r.st, inp |-> node]
                 ELSE [kind |-> "node", st |-> r.st, inp |-> node,
                       node |-> [visitedNode EXCEPT !.nodes = r.out]])
        ELSE [kind |-> "node", node |-> visitedNode, st |-> st, inp |-> node]

\* defaultVisitor of processSerialised: node.nodes = node.nodes.map(...) is
\* an assignment to the input object, which is also what is returned
processDefaultVisitor(env, node, st) ==
    IF Has(node, "nodes")
    THEN Let(visitNodes("process", env, node.nodes, st, NoneVisited), LAMBDA r :
             IF r.st.err # "none"
             THEN [kind |-> "throw", st |-> r.st,
                   inp |-> [node EXCEPT !.nodes = r.inp]]
             ELSE [kind |-> "node", st |-> r.st,
                   node |-> [node EXCEPT !.nodes = r.out],
                   inp |-> [node EXCEPT !.nodes = r.out]])
    ELSE [kind |-> "node", node |-> node, st |-> st, inp |-> node]

\* defaultVisitor of deserialiseToSlateValue: node.set('nodes', ...)
deserialiseDefaultVisitor(env, node, st) ==
    IF Has(node, "nodes")
    THEN Let(visitNodes("deserialise", env, node.nodes, st, NoneVisited), LAMBDA r :
             IF r.st.err # "none"
             THEN [kind |-> "throw", st |-> r.st, inp |-> node]
             ELSE [kind |-> "node", st |-> r.st, inp |-> node,
                   node |-> [node EXCEPT !.nodes = r.out]])
    ELSE [kind |-> "node", node |-> node, st |-> st, inp |-> node]

defaultVisitor(mode, env, node, st) ==
    CASE mode = "serialise" -> serialiseDefaultVisitor(env, node, st)
      [] mode = "process" -> processDefaultVisitor(env, node, st)
      [] OTHER -> deserialiseDefaultVisitor(env, node, st)

\* A block goes to visitBlock; what it returns replaces the node and ends the
\* descent.  null or undefined from visitBlock, and every other kind of
\* node, go to defaultVisitor.
visitNode(mode, env, node, st) ==
    IF node.object = "block"
    THEN Let(visitBlock(mode, env, node, st), LAMBDA v :
             CASE v.kind = "throw" -> [kind |-> "throw", st |-> v.st, inp |-> node]
               [] v.kind = "node" ->
                      [kind |-> "node", node |-> v.node, st |-> v.st, inp |-> node]
               [] OTHER -> defaultVisitor(mode, env, node, v.st))
    ELSE defaultVisitor(mode, env, node, st)

walkSlateNode(mode, env, node, st) == visitNode(mode, env, node, st)

\* -------------------------------------------------------- the three walks
\* serialiseSlateValue(value, blocks): { document, ...allMutations }, or the
\* error thrown; allMutations is the closure's map when the call ended
serialiseSlateValue(value, blocks) ==
    Let(walkSlateNode("serialise", [value |-> value, blocks |-> blocks],
                      value.document, [err |-> "none", allMutations |-> EmptyObj]),
        LAMBDA w :
        IF w.kind = "throw"
        THEN [ok |-> FALSE, err |-> w.st.err, result |-> None,
              allMutations |-> w.st.allMutations, inp |-> w.inp]
        ELSE [ok |-> TRUE, err |-> "none",
              result |-> Some(Spread([document |-> w.node], w.st.allMutations)),
              allMutations |-> w.st.allMutations, inp |-> w.inp])

\* processSerialised(document, blocks, graphQlArgs): { document }
processSerialised(document, blocks) ==
    Let(resolvedMutationsOf(blocks, EmptyObj), LAMBDA resolvedMutations :
    Let(walkSlateNode("process",
                      [blocks |-> blocks, resolvedMutations |-> resolvedMutations],
                      document, [err |-> "none"]),
        LAMBDA w :
        IF w.kind = "throw"
        THEN [ok |-> FALSE, err |-> w.st.err, result |-> None, inp |-> w.inp]
        ELSE [ok |-> TRUE, err |-> "none",
              result |-> Some([document |-> w.node]), inp |-> w.inp]))

\* deserialiseToSlateValue({ document, ...serializations }, blocks)
deserialiseToSlateValue(arg, blocks) ==
    Let([object |-> "value", document |-> fromJSON(arg.document, <<>>)], LAMBDA value :
    Let(walkSlateNode("deserialise",
                      [blocks |-> blocks,
                       serializations |-> [k \in DOMAIN arg \ {"document"} |-> arg[k]]],
                      value.document, [err |-> "none", calls |-> <<>>]),
        LAMBDA w :
        IF w.kind = "throw"
        THEN [ok |-> FALSE, err |-> w.st.err, result |-> None,
              calls |-> w.st.calls, inp |-> arg.document]
        ELSE [ok |-> TRUE, err |-> "none",
              result |-> Some([value EXCEPT !.document = w.node]),
              calls |-> w.st.calls, inp |-> arg.document]))

\* ------------------------------------------------------ Content constructor
\* The block classes and the `type` each instance reports.
BlockType ==
    [OrderedListBlock |-> "ordered-list",
     LinkBlock        |-> "link",
     CaptionBlock     |-> "caption",
     CustomLinkBlock  |-> "link",
     paragraph        |-> "paragraph"]

DEFAULT_BLOCKS == << [block |-> "paragraph", isArray |-> TRUE] >>

GQL_TYPE_PREFIX == "_ContentType"

\* Mutant: only neighbouring block instances are compared
duplicateBlockTypeAdjacent(blockInstances, currentIndex, checkIndex) ==
    LET hits == {i \in 1..(Len(blockInstances) - 1) :
                    blockInstances[i].type = blockInstances[i + 1].type}
    IN  IF hits = {} THEN None
        ELSE Some(blockInstances[CHOOSE i \in hits : \A j \in hits : i <= j].type)

RECURSIVE duplicateBlockType(_, _, _)
\* The nested for loops over blockInstances (indices from 1 here):
\* Some(type) when the throw is reached, None when both loops run out.
duplicateBlockType(blockInstances, currentIndex, checkIndex) ==
    IF currentIndex > Len(blockInstances) THEN None
    ELSE IF checkIndex > Len(blockInstances)
         THEN duplicateBlockType(blockInstances, currentIndex + 1, currentIndex + 2)
         ELSE IF blockInstances[currentIndex].type = blockInstances[checkIndex].type
              THEN Some(blockInstances[currentIndex].type)
              ELSE duplicateBlockType(blockInstances, currentIndex, checkIndex + 1)

\* new Content(path, { blocks: inputBlocks }, listConfig) against the lists
\* the server already holds.  `calls` are the calls made on listConfig.
ContentConstructor(path, inputBlocks, listKey, lists) ==
    LET type == <<GQL_TYPE_PREFIX, listKey, path>>
        \* Array.isArray(block) ? block : [block, {}], then the defaults
        blocks == [i \in 1..Len(inputBlocks) |-> [inputBlocks[i] EXCEPT !.isArray = TRUE]]
                  \o DEFAULT_BLOCKS
        blockInstances == [i \in 1..Len(blocks) |-> [type |-> BlockType[blocks[i].block]]]
        dup == duplicateBlockType(blockInstances, 1, 2)
        calls0 == << [fn |-> "getListByKey", key |-> <<listKey>>] >>
        calls1 == Append(calls0, [fn |-> "getListByKey", key |-> type])
    IN  IF dup # None
        THEN [ok |-> FALSE, err |-> "DuplicateBlockType", dup |-> dup,
              calls |-> calls0, lists |-> lists, blocks |-> blockInstances]
        ELSE IF type \in lists
             THEN [ok |-> TRUE, err |-> "none", dup |-> dup,
                   calls |-> calls1, lists |-> lists, blocks |-> blockInstances]
             ELSE [ok |-> TRUE, err |-> "none", dup |-> dup,
                   calls |-> Append(calls1, [fn |-> "createAuxList", key |-> type]),
                   lists |-> lists \cup {type}, blocks |-> blockInstances]

\* ------------------------------------------------------------ the inputs
Txt == [object |-> "text", text |-> "t"]

Blk(type, data, nodes) ==
    [object |-> "block", type |-> type, data |-> data, nodes |-> nodes]

DocumentsOf(kids) ==
    {[object |-> "document", data |-> EmptyObj, nodes |-> nodes] :
        nodes \in UNION {[1..n -> kids] : n \in 1..MaxKids}}

\* Children of an editor document: handled blocks with every behaviour, a
\* block no handler owns around a handled one, and a handled block around
\* another handled block.
SerialiseKids ==
    {Blk("image", [beh |-> b], <<Txt>>) : b \in DOMAIN Behaviour}
    \cup {Blk("user", [beh |-> b], <<Txt>>) : b \in {"pass", "one", "both"}}
    \cup {Blk("embed", [beh |-> b], <<>>) : b \in {"pass", "one", "drop"}}
    \cup {Blk("quote", EmptyObj, <<Blk("image", [beh |-> b], <<>>)>>) :
            b \in {"one", "stale", "orphan"}}
    \cup {Blk("image", [beh |-> b], <<Blk("image", [beh |-> "one"], <<>>)>>) :
            b \in {"drop", "one"}}
    \cup {Blk("paragraph", EmptyObj, <<Txt>>)}

\* getMutationOperationResults of the server-side block instances
Results ==
    [full    |-> [images |-> [create |-> <<"id1", "id2">>, connect |-> <<"id3">>]],
     partial |-> [images |-> [create |-> <<"id1", "">>]],
     other   |-> [images |-> [create |-> <<"id9">>]],
     nothing |-> EmptyObj]

ProcessBlocks ==
    { << [type |-> "image", results |-> Results.full] >>,
      << [type |-> "image", results |-> Results.partial] >>,
      << [type |-> "image", results |-> Results.full],
         [type |-> "user", results |-> Results.other] >>,
      << [type |-> "user", results |-> Results.nothing],
         [type |-> "image", results |-> Results.full] >> }

PathLists ==
    { <<>>, << <<"images", "create", 0>> >>,
      << <<"images", "create", 1>>, <<"images", "create", 0>> >>,
      << <<"images", "connect", 0>> >>,
      << <<"users", "create", 0>> >> }

PBlk(type, paths) ==
    [object |-> "block", type |-> type,
     data |-> [_mutationPaths |-> paths, align |-> "center"], nodes |-> <<Txt>>]

\* Children of a serialised document as the server receives it
ProcessKids ==
    {PBlk("image", p) : p \in PathLists}
    \cup {PBlk("ghost", <<>>), PBlk("ghost", << <<"images", "create", 0>> >>)}
    \cup {[object |-> "block", type |-> "paragraph", nodes |-> <<Txt>>],
          Blk("paragraph", [align |-> "left"], <<Txt>>),
          Blk("quote", EmptyObj, <<PBlk("image", << <<"images", "create", 0>> >>)>>)}
    \cup {[object |-> "inline", type |-> "link", nodes |-> <<PBlk("image", p)>>] :
            p \in {<< <<"images", "create", 0>> >>, << <<"users", "create", 0>> >>}}

\* Records fetched per block path
Serializations ==
    { [images |-> << [id |-> "id1", url |-> "a"], [id |-> "id2", url |-> "b"] >>],
      [images |-> << [id |-> "id1", url |-> "a"], [id |-> "id2", url |-> "b"],
                     [id |-> "id1", url |-> "z"] >>],
      EmptyObj }

\* Children of a persisted document
DeserialiseKids ==
    {Blk("image", [_joinIds |-> j], <<Txt>>) :
        j \in {<<>>, <<"id1">>, <<"id2", "id1">>, <<"id3">>}}
    \cup {Blk("image", EmptyObj, <<Txt>>),
          [object |-> "block", type |-> "image", nodes |-> <<Txt>>],
          Blk("image", [beh |-> "plain"], <<>>),
          Blk("embed", [_joinIds |-> <<"id1">>], <<>>),
          Blk("embed", [align |-> "left"], <<>>),
          Blk("quote", EmptyObj, <<Blk("image", [_joinIds |-> <<"id2">>], <<>>)>>),
          Blk("image", [_joinIds |-> <<"id1">>, beh |-> "null"],
              <<Blk("image", [_joinIds |-> <<"id2">>], <<>>)>>)}

InputBlocks ==
    UNION {[1..n -> {[block |-> c, isArray |-> FALSE] : c \in DOMAIN BlockType}
                    \cup {[block |-> "CaptionBlock", isArray |-> TRUE]}] :
              n \in 0..MaxBlocks}

FieldPaths == {"body", "summary"}

\* ---------------------------------------------------------- state machine
VARIABLES
    op,        \* the call that ran last, "idle" before any
    input,     \* its arguments as they were passed
    inputNow,  \* the document argument as the caller finds it afterwards
    outcome,   \* ok / err / result of the call
    internal,  \* what the call held when it ended: allMutations, calls
    auxLists   \* the auxiliary lists the server instance holds

vars == <<op, input, inputNow, outcome, internal, auxLists>>

Init ==
    /\ op = "idle"
    /\ input = EmptyObj
    /\ inputNow = EmptyObj
    /\ outcome = EmptyObj
    /\ internal = EmptyObj
    /\ auxLists = {}

Serialise ==
    /\ op = "idle"
    /\ \E document \in DocumentsOf(SerialiseKids), m \in 1..Len(BlockMaps) :
          \E value \in {[object |-> "value", document |-> fromJSON(document, <<>>)]} :
          \E r \in {serialiseSlateValue(value, BlockMaps[m])} :
              /\ op' = "serialise"
              /\ input' = [value |-> value, blocks |-> BlockMaps[m]]
              /\ inputNow' = r.inp
              /\ outcome' = [ok |-> r.ok, err |-> r.err, result |-> r.result]
              /\ internal' = [allMutations |-> r.allMutations]
    /\ UNCHANGED auxLists

Process ==
    /\ op = "idle"
    /\ \E document \in DocumentsOf(ProcessKids), blocks \in ProcessBlocks :
          \E r \in {processSerialised(document, blocks)} :
              /\ op' = "process"
              /\ input' = [document |-> document, blocks |-> blocks]
              /\ inputNow' = r.inp
              /\ outcome' = [ok |-> r.ok, err |-> r.err, result |-> r.result]
              /\ internal' = EmptyObj
    /\ UNCHANGED auxLists

Deserialise ==
    /\ op = "idle"
    /\ \E document \in DocumentsOf(DeserialiseKids), s \in Serializations,
          m \in 1..Len(BlockMaps) :
          \E arg \in {Spread([document |-> document], s)} :
          \E r \in {deserialiseToSlateValue(arg, BlockMaps[m])} :
              /\ op' = "deserialise"
              /\ input' = [arg |-> arg, blocks |-> BlockMaps[m]]
              /\ inputNow' = r.inp
              /\ outcome' = [ok |-> r.ok, err |-> r.err, result |-> r.result]
              /\ internal' = [calls |-> r.calls]
    /\ UNCHANGED auxLists

\* The order in which the field holds its block instances
HandlerOrder == <<"image", "user", "embed">>

\* What the storage layer returns for one executed batch: an id for every
\* mutation, addressable by the same action and index
ExecutedIds(batch) ==
    [a \in DOMAIN batch \ {"disconnectAll"} |->
        [i \in 1..Len(batch[a]) |-> IF i % 2 = 1 THEN "id1" ELSE "id2"]]

\* The block instances of the field after the batches were executed: each
\* reports, through getMutationOperationResults, the results of its own path
BlockInstances(blocks, batches) ==
    LET types == SelectSeq(HandlerOrder, LAMBDA t : Has(blocks, t))
        resultsOf(block) ==
            IF Has(block, "path") /\ Has(batches, block.path)
            THEN [k \in {block.path} |-> ExecutedIds(batches[block.path])]
            ELSE EmptyObj
    IN  [i \in 1..Len(types) |->
            [type |-> types[i], results |-> resultsOf(blocks[types[i]])]]

\* The resolveInput hook on what a successful serialiseSlateValue returned:
\* the batches are executed, then the document is resolved against the
\* results (JSON.parse and JSON.stringify keep these plain trees as they are).
Resolve ==
    /\ op = "serialise"
    /\ outcome.ok
    /\ \E document \in {outcome.result[1].document} :
       \E blocks \in {BlockInstances(input.blocks,
                          [k \in DOMAIN outcome.result[1] \ {"document"} |->
                              outcome.result[1][k]])} :
       \E r \in {processSerialised(document, blocks)} :
           /\ op' = "resolve"
           /\ input' = [document |-> document, blocks |-> blocks]
           /\ inputNow' = r.inp
           /\ outcome' = [ok |-> r.ok, err |-> r.err, result |-> r.result]
    /\ UNCHANGED <<internal, auxLists>>

\* Fields are constructed one after another while the server starts.
Construct ==
    /\ op \in {"idle", "construct"}
    /\ \E path \in FieldPaths, inputBlocks \in InputBlocks :
          \E r \in {ContentConstructor(path, inputBlocks, "Post", auxLists)} :
              /\ op' = "construct"
              /\ input' = [path |-> path, inputBlocks |-> inputBlocks,
                           lists |-> auxLists]
              /\ inputNow' = EmptyObj
              /\ outcome' = [ok |-> r.ok, err |-> r.err, blocks |-> r.blocks]
              /\ internal' = [calls |-> r.calls]
              /\ auxLists' = r.lists

\* The next request, or the next server instance, starts from scratch.
Reset ==
    /\ op # "idle"
    /\ op' = "idle"
    /\ input' = EmptyObj
    /\ inputNow' = EmptyObj
    /\ outcome' = EmptyObj
    /\ internal' = EmptyObj
    /\ auxLists' = {}

Next == Serialise \/ Process \/ Deserialise \/ Resolve \/ Construct \/ Reset

Spec == Init /\ [][Next]_vars

\* ------------------------------------------------- reading trees by position
RECURSIVE PositionsOf(_, _)
\* The index paths of all nodes of a tree; the root is at <<>>.
PositionsOf(node, pos) ==
    {pos} \cup
    (IF Has(node, "nodes")
     THEN UNION {PositionsOf(node.nodes[i], Append(pos, i)) : i \in 1..Len(node.nodes)}
     ELSE {})

RECURSIVE NodeAt(_, _)
NodeAt(node, pos) ==
    IF pos = <<>> THEN node ELSE NodeAt(node.nodes[Head(pos)], Tail(pos))

IsPrefix(p, q) == Len(p) <= Len(q) /\ SubSeq(q, 1, Len(p)) = p

\* p comes before q in document order (a parent before its children)
Before(p, q) ==
    \/ (p # q /\ IsPrefix(p, q))
    \/ \E k \in 1..Len(p) :
          /\ k <= Len(q)
          /\ SubSeq(p, 1, k - 1) = SubSeq(q, 1, k - 1)
          /\ p[k] < q[k]

PathsOf(node) ==
    IF Has(node, "data") /\ Has(node.data, "_mutationPaths")
    THEN node.data._mutationPaths ELSE <<>>

\* ------------------------------------------------ serialise: what is asked
SerDoc == input.value.document
SerBlocks == input.blocks
SerOut == outcome.result[1].document
SerBatches == [k \in DOMAIN outcome.result[1] \ {"document"} |-> outcome.result[1][k]]

Handled(blocks, node) == node.object = "block" /\ Has(blocks, node.type)

\* The positions the walk comes to when nothing throws: below a block whose
\* handler answered with a node nothing is visited.
SerVisited ==
    {p \in PositionsOf(SerDoc, <<>>) :
        \A q \in PositionsOf(SerDoc, <<>>) :
            (q # p /\ IsPrefix(q, p)) =>
                ~(/\ Handled(SerBlocks, NodeAt(SerDoc, q))
                  /\ Has(serialize(SerBlocks[NodeAt(SerDoc, q).type], input.value,
                                   NodeAt(SerDoc, q)), "node"))}

\* The visited blocks that have a handler, and what serialize answers there
SerHandled == {p \in SerVisited : Handled(SerBlocks, NodeAt(SerDoc, p))}

Answer(p) == serialize(SerBlocks[NodeAt(SerDoc, p).type], input.value, NodeAt(SerDoc, p))

RECURSIVE Flatten(_)
\* The mutations of one answer in the order the handler emitted them
Flatten(entries) ==
    IF entries = <<>> THEN <<>>
    ELSE LET e == Head(entries)
             items == IF e.data.isArray THEN e.data.items ELSE <<e.data.value>>
         IN  [i \in 1..Len(items) |-> [action |-> e.action, mutation |-> items[i]]]
             \o Flatten(Tail(entries))

Emitted(p) == IF Has(Answer(p), "mutations") THEN Flatten(Answer(p).mutations) ELSE <<>>

\* The visited blocks whose handler answered with a node
SerClaimed == {p \in SerHandled : Has(Answer(p), "node")}

\* The paths the call itself pushed onto the node at p: what follows the
\* entries the handler's node already carried
Pushed(p) ==
    LET all == PathsOf(NodeAt(SerOut, p))
        own == PathsOf(Answer(p).node)
    IN  SubSeq(all, Len(own) + 1, Len(all))

SerOk == op = "serialise" /\ outcome.ok

\* Every entry <<position, index>> of every data._mutationPaths of the
\* returned document, and those among them the call pushed
FoundPaths ==
    UNION {{<<p, i>> : i \in 1..Len(PathsOf(NodeAt(SerOut, p)))} :
              p \in PositionsOf(SerOut, <<>>)}

PushedPaths == UNION {{<<p, i>> : i \in 1..Len(Pushed(p))} : p \in SerClaimed}

PathOfNode(blocks, node) == blocks[node.type].path

C2_PositionalBatches ==
    SerOk =>
        /\ \A p \in SerClaimed :
              /\ Len(Pushed(p)) = Len(Emitted(p))
              /\ \A k \in 1..Len(Emitted(p)) :
                    LET mp == Pushed(p)[k]
                        P == PathOfNode(SerBlocks, NodeAt(SerDoc, p))
                    IN  /\ mp[1] = P
                        /\ mp[2] = Emitted(p)[k].action
                        /\ (mp[3] + 1) \in DOMAIN SerBatches[P][mp[2]]
                        /\ SerBatches[P][mp[2]][mp[3] + 1] = Emitted(p)[k].mutation
        /\ \A P \in DOMAIN SerBatches :
              \A a \in DOMAIN SerBatches[P] \ {"disconnectAll"} :
                  Len(SerBatches[P][a]) =
                      Cardinality(UNION {{<<p, k>> : k \in {j \in 1..Len(Emitted(p)) :
                                                              Emitted(p)[j].action = a}} :
                                           p \in {q \in SerClaimed :
                                                    /\ Emitted(q) # <<>>
                                                    /\ PathOfNode(SerBlocks, NodeAt(SerDoc, q)) = P}})

\* A later node's mutation went in behind an earlier node's, under one key.
C2_Witness ==
    /\ SerOk
    /\ \E p \in SerClaimed, q \in SerClaimed :
          /\ Before(p, q) /\ Pushed(p) # <<>> /\ Pushed(q) # <<>>
          /\ Pushed(p)[1][1] = Pushed(q)[1][1]
          /\ Pushed(p)[1][2] = Pushed(q)[1][2]
          /\ Pushed(q)[1][3] > 0
          /\ NodeAt(SerDoc, p).type # NodeAt(SerDoc, q).type

\* ---------------------------------------------------------------- C4
\* C4: result[P] exists only if at least one mutation was appended under P
\* during the pass, and then result[P].disconnectAll is true; a handler whose
\* serialize returns no mutation entries for a node (an action mapped to an
\* empty array included) creates no batch entry.
C4_BatchOnlyWithMutations ==
    SerOk =>
        \A P \in DOMAIN SerBatches :
            /\ SerBatches[P].disconnectAll = TRUE
            /\ \E a \in DOMAIN SerBatches[P] \ {"disconnectAll"} :
                  Len(SerBatches[P][a]) > 0

\* ---------------------------------------------------------------- C5
\* The visited handled blocks whose handler answered with no node and no
\* mutations
SerUnanswered ==
    {p \in SerHandled : ~Has(Answer(p), "node") /\ Emitted(p) = <<>>}

Parent(p) == SubSeq(p, 1, Len(p) - 1)

\* C5 as stated: such a block is dropped, the returned document holds no
\* node for it: its parent has one child less for each such block.
C5_BlockDropped ==
    SerOk =>
        \A p \in SerUnanswered :
            Len(NodeAt(SerOut, Parent(p)).nodes) =
                Len(NodeAt(SerDoc, Parent(p)).nodes)
                - Cardinality({q \in SerUnanswered : Parent(q) = Parent(p)})

\* C5, amended: such a block is not dropped.  visitBlock returns null for
\* it, the walk hands it to the default visitor, and the returned document
\* holds at its place its generic JSON projection, with every child visited
\* in turn (a handled child gets its mutation paths).
C5_BlockFallsThrough ==
    SerOk =>
        \A p \in SerUnanswered :
            LET old == NodeAt(SerDoc, p)
                new == NodeAt(SerOut, p)
            IN  /\ Len(NodeAt(SerOut, Parent(p)).nodes) = Len(NodeAt(SerDoc, Parent(p)).nodes)
                /\ DOMAIN new = DOMAIN old \ {"key"}
                /\ \A k \in DOMAIN new \ {"nodes"} : new[k] = old[k]
                /\ Len(new.nodes) = Len(old.nodes)
                /\ \A i \in 1..Len(old.nodes) :
                      /\ Append(p, i) \in SerVisited
                      /\ Append(p, i) \in SerClaimed =>
                            Len(Pushed(Append(p, i))) = Len(Emitted(Append(p, i)))

\* A block whose handler answered nothing, around a block that got a path.
C5_Witness ==
    /\ SerOk
    /\ \E p \in SerUnanswered :
          /\ NodeAt(SerDoc, p).nodes # <<>>
          /\ Append(p, 1) \in SerClaimed
          /\ Pushed(Append(p, 1)) # <<>>

\* ---------------------------------------------------------------- C6
\* The visited handled blocks whose answer must make the call fail:
\* a non-empty mutations map with no node, or with a handler without path
Offenders ==
    {p \in SerHandled :
        /\ Has(Answer(p), "mutations") /\ Answer(p).mutations # <<>>
        /\ \/ ~Has(Answer(p), "node")
           \/ ~Has(SerBlocks[NodeAt(SerDoc, p).type], "path")}

FirstOffender == CHOOSE p \in Offenders : \A q \in Offenders : q = p \/ Before(p, q)

\* The batch keys touched by the blocks visited before p
TouchedBefore(p) ==
    {PathOfNode(SerBlocks, NodeAt(SerDoc, q)) :
        q \in {c \in SerClaimed : Before(c, p) /\ Has(Answer(c), "mutations")
                                   /\ Answer(c).mutations # <<>>}}

\* C6: serialiseSlateValue fails, and returns no document and no batches,
\* whenever some visited block's handler returns a non-empty mutations map
\* with no serialized node, or with a handler that declares no path; the
\* failure comes before any batch entry or mutation path for that node is
\* recorded: allMutations holds what the blocks before it left, no more.
C6_FailsBeforeRecording ==
    (op = "serialise" /\ Offenders # {}) =>
        /\ ~outcome.ok
        /\ outcome.result = None
        /\ DOMAIN internal.allMutations = TouchedBefore(FirstOffender)
        /\ \A P \in DOMAIN internal.allMutations :
              \A a \in DOMAIN internal.allMutations[P] \ {"disconnectAll"} :
                  \A i \in 1..Len(internal.allMutations[P][a]) :
                      Before(internal.allMutations[P][a][i].from, FirstOffender)

\* A call failed on a block after an earlier block's mutations were taken,
\* once for the missing node and once for the missing path.
C6_Witness ==
    /\ op = "serialise" /\ ~outcome.ok
    /\ Offenders # {}
    /\ internal.allMutations # EmptyObj
    /\ Has(SerBlocks[NodeAt(SerDoc, FirstOffender).type], "path")
    /\ PathOfNode(SerBlocks, NodeAt(SerDoc, FirstOffender))
          \notin DOMAIN internal.allMutations

\* -------------------------------------------------- process: what is asked
ProcDoc == input.document
ProcBlocks == input.blocks
ProcOut == outcome.result[1].document

\* The walk comes to a node when no block lies above it: visitBlock answers
\* every block with a node, so nothing below a block is visited.
ProcVisited ==
    {p \in PositionsOf(ProcDoc, <<>>) :
        \A q \in PositionsOf(ProcDoc, <<>>) :
            (q # p /\ IsPrefix(q, p)) => NodeAt(ProcDoc, q).object # "block"}

\* The visited blocks that carry data._mutationPaths
ProcTargets ==
    {p \in ProcVisited :
        /\ NodeAt(ProcDoc, p).object = "block"
        /\ Has(NodeAt(ProcDoc, p), "data")
        /\ Has(NodeAt(ProcDoc, p).data, "_mutationPaths")}

Registered(type) == \E i \in 1..Len(ProcBlocks) : ProcBlocks[i].type = type

\* The combined results: for every key, what the last block that reports
\* the key reports for it.
Combined ==
    LET keys == UNION {DOMAIN ProcBlocks[i].results : i \in 1..Len(ProcBlocks)}
        last(k) == CHOOSE i \in 1..Len(ProcBlocks) :
                      /\ k \in DOMAIN ProcBlocks[i].results
                      /\ \A j \in 1..Len(ProcBlocks) :
                            k \in DOMAIN ProcBlocks[j].results => j <= i
    IN  [k \in keys |-> ProcBlocks[last(k)].results[k]]

\* The key path of mp leads to a value in the combined results
Present(mp) ==
    /\ mp[1] \in DOMAIN Combined
    /\ mp[2] \in DOMAIN Combined[mp[1]]
    /\ mp[3] < Len(Combined[mp[1]][mp[2]])

ValueAt(mp) == Combined[mp[1]][mp[2]][mp[3] + 1]

Resolves(mp) == Present(mp) /\ ValueAt(mp) # ""

ProcOk == op = "process" /\ outcome.ok

\* ---------------------------------------------------------------- C3
\* C3: for every visited block that carries data._mutationPaths, has a
\* registered handler and whose paths all resolve, the output node's data is
\* exactly {_joinIds}, _joinIds is as long as _mutationPaths, _joinIds[i] is
\* the value found at _mutationPaths[i] in the combined results, and the
\* node's other fields are unchanged.
C3_DataIsJoinIds ==
    ProcOk =>
        \A p \in ProcTargets :
            LET old == NodeAt(ProcDoc, p)
                new == NodeAt(ProcOut, p)
            IN  /\ DOMAIN new.data = {"_joinIds"}
                /\ Len(new.data._joinIds) = Len(old.data._mutationPaths)
                /\ \A i \in 1..Len(old.data._mutationPaths) :
                      /\ Present(old.data._mutationPaths[i])
                      /\ new.data._joinIds[i] = ValueAt(old.data._mutationPaths[i])
                /\ DOMAIN new = DOMAIN old
                /\ \A k \in DOMAIN old \ {"data"} : new[k] = old[k]

\* A block with two paths and other data was resolved, below an inline.
C3_Witness ==
    /\ ProcOk
    /\ \E p \in ProcTargets :
          /\ Len(NodeAt(ProcDoc, p).data._mutationPaths) = 2
          /\ DOMAIN NodeAt(ProcDoc, p).data # {"_mutationPaths"}
    /\ \E p \in ProcTargets : Len(p) = 2

\* ---------------------------------------------------------------- C7
\* C7: processSerialised fails, and returns no document, whenever a visited
\* block carrying data._mutationPaths has a type no handler is registered
\* for, or has a path whose lookup in the combined results is missing or
\* falsy; it succeeds only if every such path resolves to a truthy value.
C7_FailsOnUnresolved ==
    op = "process" =>
        /\ outcome.ok <=>
              \A p \in ProcTargets :
                  /\ Registered(NodeAt(ProcDoc, p).type)
                  /\ \A i \in 1..Len(NodeAt(ProcDoc, p).data._mutationPaths) :
                        Resolves(NodeAt(ProcDoc, p).data._mutationPaths[i])
        /\ ~outcome.ok => outcome.result = None

\* A call failed although every block is handled and every path is present
\* in the results: one of the values is falsy.
C7_Witness ==
    /\ op = "process" /\ ~outcome.ok
    /\ outcome.err = "UnknownMutation"
    /\ \A p \in ProcTargets :
          /\ Registered(NodeAt(ProcDoc, p).type)
          /\ \A i \in 1..Len(NodeAt(ProcDoc, p).data._mutationPaths) :
                Present(NodeAt(ProcDoc, p).data._mutationPaths[i])

\* ----------------------------------------------- deserialise: what is asked
DesDoc == fromJSON(input.arg.document, <<>>)
DesBlocks == input.blocks
DesCalls == internal.calls

\* The ids a node carries, none when it has no data._joinIds
IdsOf(node) == IF Has(node.data, "_joinIds") THEN node.data._joinIds ELSE <<>>

\* Whether records were fetched for the handler of a node, and which
HasRecords(node) ==
    /\ Has(DesBlocks[node.type], "path")
    /\ Has(input.arg, DesBlocks[node.type].path)

RecordsOf(node) == input.arg[DesBlocks[node.type].path]

\* What the handler of a node answers: a node, null, or no Node at all
AnswerKind(node) == deserialize(DesBlocks[node.type], node, <<>>).kind

\* The walk over the document as the specification describes it:
\*   nodes      the nodes of the document by position;
\*   handled    the visited blocks that have a handler, where nothing below
\*              a block whose handler answers with a node is visited;
\*   recordless those of them that carry ids while no records were fetched;
\*   stopping   the blocks at which the call stops;
\*   called     the blocks whose handler is called: the handled ones up to
\*              the first stopping one, that one included unless recordless.
DesWalk ==
    Let(DesDoc, LAMBDA doc :
    Let([p \in PositionsOf(doc, <<>>) |-> NodeAt(doc, p)], LAMBDA nodes :
    Let({p \in DOMAIN nodes :
            /\ Handled(DesBlocks, nodes[p])
            /\ \A k \in 0..(Len(p) - 1) :
                  ~(/\ Handled(DesBlocks, nodes[SubSeq(p, 1, k)])
                    /\ AnswerKind(nodes[SubSeq(p, 1, k)]) # "null")},
        LAMBDA handled :
    Let({p \in handled : IdsOf(nodes[p]) # <<>> /\ ~HasRecords(nodes[p])},
        LAMBDA recordless :
    Let(recordless \cup {p \in handled : AnswerKind(nodes[p]) = "plain"},
        LAMBDA stopping :
        [nodes |-> nodes, handled |-> handled, recordless |-> recordless,
         stopping |-> stopping,
         called |-> {p \in handled \ recordless :
                        \A q \in stopping : q = p \/ Before(p, q)}])))))

\* ---------------------------------------------------------------- C8
\* C8 as stated: the joins passed to handler.deserialize are parallel to
\* the node's data._joinIds, and joins[i] is the record of the handler's
\* path whose id is _joinIds[i], for every i.
C8_JoinsAreRecords ==
    op = "deserialise" =>
        \A w \in {DesWalk} : \A c \in 1..Len(DesCalls) :
            LET node == w.nodes[DesCalls[c].key]
                joins == DesCalls[c].joins
            IN  /\ Len(joins) = Len(IdsOf(node))
                /\ \A i \in 1..Len(joins) :
                      /\ joins[i] # None
                      /\ joins[i][1].id = IdsOf(node)[i]
                      /\ \E j \in 1..Len(RecordsOf(node)) :
                            RecordsOf(node)[j] = joins[i][1]

\* C8, amended: the handler of every visited handled block is called,
\* unless the block carries ids while no records were fetched for the
\* handler's path: then the call fails at that block.  The joins passed are
\* parallel to data._joinIds: joins[i] is the first fetched record whose id
\* is _joinIds[i], and undefined when there is none; a node without
\* data._joinIds gets an empty joins array.
C8_JoinsParallelOrUndefined ==
    op = "deserialise" =>
        \A w \in {DesWalk} :
            /\ {DesCalls[c].key : c \in 1..Len(DesCalls)} = w.called
            /\ \A c, d \in 1..Len(DesCalls) :
                  c < d => Before(DesCalls[c].key, DesCalls[d].key)
            /\ \A c \in 1..Len(DesCalls) :
                  LET node == w.nodes[DesCalls[c].key]
                      joins == DesCalls[c].joins
                      matches(i) == {j \in 1..Len(RecordsOf(node)) :
                                        RecordsOf(node)[j].id = IdsOf(node)[i]}
                  IN  /\ Len(joins) = Len(IdsOf(node))
                      /\ \A i \in 1..Len(joins) :
                            /\ joins[i] = None <=> matches(i) = {}
                            /\ joins[i] # None =>
                                  \E j \in matches(i) :
                                      /\ joins[i][1] = RecordsOf(node)[j]
                                      /\ \A k \in matches(i) : j <= k
            /\ (\E p \in w.recordless : \A q \in w.stopping : q = p \/ Before(p, q)) =>
                  (~outcome.ok /\ outcome.err = "TypeError")
            /\ w.stopping = {} => outcome.ok

\* A call in which one handler got both records of its two ids, the second
\* of them stored twice, and another got undefined for an id nobody has.
C8_Witness ==
    /\ op = "deserialise" /\ outcome.ok
    /\ \E c, d \in 1..Len(DesCalls) :
          LET node == NodeAt(DesDoc, DesCalls[c].key)
          IN  /\ Len(DesCalls[c].joins) = 2
              /\ \A i \in 1..2 : DesCalls[c].joins[i] # None
              /\ Cardinality({j \in 1..Len(RecordsOf(node)) :
                                 RecordsOf(node)[j].id = IdsOf(node)[2]}) = 2
              /\ DesCalls[d].joins = <<None>>

\* ------------------------------------------------ construct: what is asked
\* The list the field keeps its documents in
AuxListKey == <<GQL_TYPE_PREFIX, "Post", input.path>>

\* Two of the field's block instances report the same type
DuplicateTypes ==
    \E i, j \in 1..Len(outcome.blocks) :
        i < j /\ outcome.blocks[i].type = outcome.blocks[j].type

\* ---------------------------------------------------------------- C9
\* C9: constructing a Content field fails whenever two of its block
\* instances (the configured blocks followed by the default paragraph block)
\* report the same type, before the auxiliary list is looked up or created;
\* when all types are distinct the duplicate check raises no error.
C9_DuplicateTypesRejected ==
    op = "construct" =>
        /\ Len(outcome.blocks) = Len(input.inputBlocks) + 1
        /\ \A i \in 1..Len(input.inputBlocks) :
              outcome.blocks[i].type = BlockType[input.inputBlocks[i].block]
        /\ outcome.blocks[Len(outcome.blocks)].type = BlockType.paragraph
        /\ DuplicateTypes =>
              /\ ~outcome.ok /\ outcome.err = "DuplicateBlockType"
              /\ \A c \in 1..Len(internal.calls) : internal.calls[c].key # AuxListKey
              /\ auxLists = input.lists
        /\ ~DuplicateTypes =>
              /\ outcome.ok
              /\ AuxListKey \in auxLists

\* A field whose first configured block has the type of the default
\* paragraph block, with another block between them, is rejected on a server
\* that already holds the list of an earlier field.
C9_Witness ==
    /\ op = "construct" /\ ~outcome.ok
    /\ Len(outcome.blocks) = 3
    /\ outcome.blocks[1].type = outcome.blocks[3].type
    /\ outcome.blocks[2].type # outcome.blocks[1].type
    /\ auxLists # {}
    /\ AuxListKey \notin auxLists

\* ---------------------------------------------------------------- C10
\* The document handed to the walk of the last call
InputDocument ==
    CASE op = "serialise" -> input.value.document
      [] op = "process" -> input.document
      [] op = "deserialise" -> input.arg.document

\* C10: none of the three walks mutates its input: after the call returns
\* or fails the input document is node for node what it was before the call.
C10_InputNotMutated ==
    op \in {"serialise", "process", "deserialise"} => inputNow = InputDocument

\* -------------------------------------- serialise, then resolve: what is asked
\* The document serialiseSlateValue returned, and what resolving it returned
ResDoc == input.document
ResOut == outcome.result[1].document

ResOk == op = "resolve" /\ outcome.ok

Carries(node, key) == Has(node, "data") /\ Has(node.data, key)

\* ---------------------------------------------------------------- C11
\* C11: when serialiseSlateValue succeeds and processSerialised then
\* succeeds on its output document, with a result for every emitted mutation
\* path, no node of the resolved document still carries data._mutationPaths,
\* and every node that carried data._mutationPaths after serialise carries
\* data._joinIds of the same length after resolve, also below a block that
\* has no handler or that carries no data._mutationPaths.
C11_NoUnresolvedReference ==
    ResOk =>
        /\ \A p \in PositionsOf(ResOut, <<>>) :
              ~Carries(NodeAt(ResOut, p), "_mutationPaths")
        /\ \A p \in PositionsOf(ResDoc, <<>>) :
              Carries(NodeAt(ResDoc, p), "_mutationPaths") =>
                  /\ Carries(NodeAt(ResOut, p), "_joinIds")
                  /\ Len(NodeAt(ResOut, p).data._joinIds)
                        = Len(NodeAt(ResDoc, p).data._mutationPaths)

====
